---- MODULE Spec2Model ----
(***************************************************************************)
(* Order placement and order cancellation of gdaxcli                       *)
(* (src/gdaxcli/gdax_utils.py, class Client).                              *)
(*                                                                         *)
(* Python strings are sequences of one-character strings, so that slicing, *)
(* startswith, upper and split are modelled by what they do.  Python       *)
(* floats are exact decimals [m, e] standing for m * 10^(-e), kept in      *)
(* normal form (no trailing zero in the fraction); the binary rounding     *)
(* error of a double (about 1e-16 relative) is below the resolution of     *)
(* this model.  A Python value that may be a str or a float is a record    *)
(* [t, s, v] tagged "str" or "float".                                       *)
(***************************************************************************)
EXTENDS Integers, Sequences, FiniteSets, TLC

(***************************************************************************)
(* Characters and strings                                                  *)
(***************************************************************************)

\* string.digits
DIGITS == {"0", "1", "2", "3", "4", "5", "6", "7", "8", "9"}

DigitChars == <<"0", "1", "2", "3", "4", "5", "6", "7", "8", "9">>

DigitVal(c) == (CHOOSE i \in 1..Len(DigitChars) : DigitChars[i] = c) - 1

DigitChar(d) == DigitChars[d + 1]

Min(a, b) == IF a < b THEN a ELSE b

\* s[:end] (a Python slice clamps to the length of the string)
Slice(s, end) == SubSeq(s, 1, Min(end, Len(s)))

\* str.upper on the letters the inputs use
UpperChar(c) ==
  CASE c = "b" -> "B" [] c = "t" -> "T" [] c = "c" -> "C" [] c = "u" -> "U"
    [] c = "s" -> "S" [] c = "d" -> "D" [] c = "e" -> "E" [] c = "h" -> "H"
    [] OTHER -> c

Upper(s) == [i \in 1..Len(s) |-> UpperChar(s[i])]

\* str.startswith
StartsWith(s, prefix) ==
  /\ Len(prefix) <= Len(s)
  /\ SubSeq(s, 1, Len(prefix)) = prefix

\* 1-based position of the first occurrence of c in s, 0 if there is none
IndexOf(s, c) ==
  IF \E i \in 1..Len(s) : s[i] = c
    THEN CHOOSE i \in 1..Len(s) : s[i] = c /\ \A j \in 1..(i - 1) : s[j] # c
    ELSE 0

\* str.split('-'): the list of the pieces between the separators
RECURSIVE Split(_)
Split(s) ==
  LET k == IndexOf(s, "-")
  IN  IF k = 0 THEN <<s>>
      ELSE <<SubSeq(s, 1, k - 1)>> \o Split(SubSeq(s, k + 1, Len(s)))

(***************************************************************************)
(* Decimals: [m |-> mantissa, e |-> number of fractional digits]           *)
(***************************************************************************)

RECURSIVE Pow10(_)
Pow10(n) == IF n = 0 THEN 1 ELSE 10 * Pow10(n - 1)

RECURSIVE Norm(_)
Norm(d) ==
  IF d.e > 0 /\ d.m % 10 = 0 THEN Norm([m |-> d.m \div 10, e |-> d.e - 1])
  ELSE d

Dec(m, e) == Norm([m |-> m, e |-> e])

Max(a, b) == IF a > b THEN a ELSE b

\* the mantissa of d at e fractional digits, e >= d.e
Scaled(d, e) == d.m * Pow10(e - d.e)

DecAdd(a, b) ==
  LET e == Max(a.e, b.e) IN Dec(Scaled(a, e) + Scaled(b, e), e)

DecNeg(a) == [m |-> 0 - a.m, e |-> a.e]

DecSub(a, b) == DecAdd(a, DecNeg(b))

DecMul(a, b) == Dec(a.m * b.m, a.e + b.e)

\* a < b, comparing the integer parts first and then the fractions
DecLess(a, b) ==
  LET e == Max(a.e, b.e)
      ia == a.m \div Pow10(a.e)
      ib == b.m \div Pow10(b.e)
      fa == (a.m % Pow10(a.e)) * Pow10(e - a.e)
      fb == (b.m % Pow10(b.e)) * Pow10(e - b.e)
  IN  ia < ib \/ (ia = ib /\ fa < fb)

DecLeq(a, b) == ~DecLess(b, a)

Zero == [m |-> 0, e |-> 0]

(***************************************************************************)
(* float(s) and '%.6f' % x                                                 *)
(***************************************************************************)

AllDigits(s) == \A i \in 1..Len(s) : s[i] \in DIGITS

\* s without a leading sign
Unsigned(s) ==
  IF Len(s) > 0 /\ s[1] \in {"+", "-"} THEN SubSeq(s, 2, Len(s)) ELSE s

\* float(s) succeeds: [sign] digits [. [digits]] or [sign] . digits
\* (exponents, inf, nan and surrounding blanks are not among the inputs)
IsFloatStr(s) ==
  LET u == Unsigned(s)
      k == IndexOf(u, ".")
      ip == IF k = 0 THEN u ELSE SubSeq(u, 1, k - 1)
      fp == IF k = 0 THEN <<>> ELSE SubSeq(u, k + 1, Len(u))
  IN  /\ AllDigits(ip)
      /\ AllDigits(fp)
      /\ Len(ip) + Len(fp) > 0

RECURSIVE DigitsVal(_)
DigitsVal(s) ==
  IF Len(s) = 0 THEN 0
  ELSE 10 * DigitsVal(SubSeq(s, 1, Len(s) - 1)) + DigitVal(s[Len(s)])

\* float(s) for a string float() accepts
Float(s) ==
  LET u == Unsigned(s)
      k == IndexOf(u, ".")
      ip == IF k = 0 THEN u ELSE SubSeq(u, 1, k - 1)
      fp == IF k = 0 THEN <<>> ELSE SubSeq(u, k + 1, Len(u))
      mag == DigitsVal(ip \o fp)
  IN  Dec(IF s[1] = "-" THEN 0 - mag ELSE mag, Len(fp))

RECURSIVE NatStr(_)
NatStr(n) ==
  IF n < 10 THEN <<DigitChar(n)>>
  ELSE NatStr(n \div 10) \o <<DigitChar(n % 10)>>

\* the n last decimal digits of k, zero padded
RECURSIVE FracStr(_, _)
FracStr(k, n) ==
  IF n = 0 THEN <<>> ELSE FracStr(k \div 10, n - 1) \o <<DigitChar(k % 10)>>

Abs(x) == IF x < 0 THEN 0 - x ELSE x

\* '%.6f' % x: x rounded to the nearest decimal of 6 fractional digits.  The
\* double nearest to a decimal tie lies above or below it, so a tie rounds
\* up exactly when tieUp.
Fmt6(x, tieUp) ==
  LET mag == Abs(x.m)
      unit == IF x.e > 6 THEN Pow10(x.e - 6) ELSE 1
      q == IF x.e > 6 THEN mag \div unit ELSE mag * Pow10(6 - x.e)
      r == IF x.e > 6 THEN mag % unit ELSE 0
      up == 2 * r > unit \/ (2 * r = unit /\ tieUp)
      k == IF up THEN q + 1 ELSE q
  IN  (IF x.m < 0 THEN <<"-">> ELSE <<>>)
        \o NatStr(k \div Pow10(6)) \o <<".">> \o FracStr(k % Pow10(6), 6)

(***************************************************************************)
(* Python values that are a str, a float or None                           *)
(***************************************************************************)

Str(s) == [t |-> "str", s |-> s, v |-> Zero]

Flt(v) == [t |-> "float", s |-> <<>>, v |-> v]

None == [t |-> "none", s |-> <<>>, v |-> Zero]

\* float(x) succeeds
CanFloat(x) == x.t = "float" \/ (x.t = "str" /\ IsFloatStr(x.s))

\* float(x)
PyFloat(x) == IF x.t = "float" THEN x.v ELSE Float(x.s)

\* the comparison written a <= b
PyLessOrEqual(a, b) == IF b.t = "str" THEN TRUE ELSE DecLeq(a, b.v)

\* a < b in Python 2 for a float a: numeric for two numbers; a number is
\* smaller than every str (CPython 2 orders mixed types, numbers first)
PyLess(a, b) == IF b.t = "str" THEN TRUE ELSE DecLess(a, b.v)

(***************************************************************************)
(* Helpers of Client                                                       *)
(***************************************************************************)

\* the characters of the inputs in ASCII order
Ascii ==
  <<"+", "-", ".", "0", "1", "2", "3", "4", "5", "6", "7", "8", "9",
    "B", "C", "D", "E", "H", "S", "T", "U",
    "a", "b", "c", "d", "e", "g", "h", "o", "s", "t", "u", "x">>

Ord(c) == CHOOSE i \in 1..Len(Ascii) : Ascii[i] = c

\* a < b for two str
RECURSIVE StrLess(_, _)
StrLess(a, b) ==
  IF Len(b) = 0 THEN FALSE
  ELSE IF Len(a) = 0 THEN TRUE
  ELSE IF a[1] # b[1] THEN Ord(a[1]) < Ord(b[1])
  ELSE StrLess(Tail(a), Tail(b))

\* list.sort()
RECURSIVE Sort(_)
Sort(l) ==
  IF Len(l) = 0 THEN <<>>
  ELSE LET rest == Sort(Tail(l))
           lo == SelectSeq(rest, LAMBDA x : StrLess(x, Head(l)))
           hi == SelectSeq(rest, LAMBDA x : ~StrLess(x, Head(l)))
       IN  lo \o <<Head(l)>> \o hi

\* Client._get_product_ids, products being the list get_products returned
GetProductIds(products) == Sort([i \in 1..Len(products) |-> products[i].id])

InSeq(x, l) == \E i \in 1..Len(l) : l[i] = x

\* Client._truncate for a str s
Truncate(s, digits) ==
  LET dot == IndexOf(s, ".")
  IN  IF dot # 0 THEN Slice(s, dot + digits) ELSE Slice(s, Len(s))

\* Client._parse_price: [err, abs_price, amount]; err names the exception
\* float() raises, "none" when the pair (abs_price, amount) is returned
ParsePrice(price, current_price, tieUp) ==
  IF price[1] \in DIGITS
    THEN IF IsFloatStr(price)
           THEN [err |-> "none", abs_price |-> Truncate(price, 2),
                 amount |-> DecSub(Float(price), current_price)]
           ELSE [err |-> "ValueError", abs_price |-> <<>>, amount |-> Zero]
    ELSE LET rest == SubSeq(price, 2, Len(price))
         IN  IF IsFloatStr(rest)
               THEN LET amount == IF price[1] = "-" THEN DecNeg(Float(rest))
                                  ELSE Float(rest)
                        abs_price == DecAdd(current_price, amount)
                    IN  [err |-> "none",
                         abs_price |-> Truncate(Fmt6(abs_price, tieUp), 2),
                         amount |-> amount]
               ELSE [err |-> "ValueError", abs_price |-> <<>>, amount |-> Zero]

\* _check_valid_order without its check of side
CheckValidOrderAnySide(order_type, side, product, size, price, product_ids) ==
  IF order_type \notin {"market", "limit", "stop"} THEN "AssertionError"
  ELSE IF ~InSeq(Upper(product), product_ids) THEN "AssertionError"
  ELSE IF size.t = "none" THEN "TypeError"
  ELSE IF ~CanFloat(size) THEN "ValueError"
  ELSE IF order_type # "market"
    THEN IF price.t = "none" THEN "TypeError"
         ELSE IF Len(price.s) = 0 THEN "IndexError"
         ELSE IF price.s[1] \notin (DIGITS \cup {"-", "+"}) THEN "AssertionError"
         ELSE "ok"
  ELSE "ok"

\* Client._check_valid_order: "ok", or the exception it raises
CheckValidOrder(order_type, side, product, size, price, product_ids) ==
  IF order_type \notin {"market", "limit", "stop"} THEN "AssertionError"
  ELSE IF side \notin {"buy", "sell"} THEN "AssertionError"
  ELSE IF ~InSeq(Upper(product), product_ids) THEN "AssertionError"
  ELSE IF size.t = "none" THEN "TypeError"
  ELSE IF ~CanFloat(size) THEN "ValueError"
  ELSE IF order_type # "market"
    THEN IF price.t = "none" THEN "TypeError"
         ELSE IF Len(price.s) = 0 THEN "IndexError"
         ELSE IF price.s[1] \notin (DIGITS \cup {"-", "+"}) THEN "AssertionError"
         ELSE "ok"
  ELSE "ok"

\* the list comprehension of Client.bal: the available amounts of the
\* accounts in currency cur
Available(accounts, cur) ==
  LET hits == SelectSeq(accounts, LAMBDA x : x.currency = cur)
  IN  [i \in 1..Len(hits) |-> hits[i].available]

\* confirm taking the empty response, the default of the prompt, for a yes
ConfirmEmptyIsYes(response) == response \in {<<"y">>, <<"Y">>, <<>>}

\* confirm: the value returned for the operator's response
Confirm(response) == response \in {<<"y">>, <<"Y">>}

(***************************************************************************)
(* Inputs: the operator's arguments and what the exchange answers          *)
(***************************************************************************)

OrderTypes == {"market", "limit", "stop", "fok"}

Sides == {"buy", "sell", "hold"}

ProductArgs ==
  { <<"b", "t", "c", "-", "u", "s", "d">>,
    <<"E", "T", "H", "-", "U", "S", "D">>,
    <<"d", "o", "g", "e", "-", "u", "s", "d">> }

SizeArgs ==
  { Str(<<"1">>), Str(<<"0", ".", "5">>), Str(<<"x">>),
    Flt(Dec(1, 0)), Flt(Dec(2, 0)) }

PriceArgs ==
  { None,
    Str(<<"9", "9", ".", "5">>),
    Str(<<"1", "0", "0", ".", "0", "0", "9">>),
    Str(<<"1", "0", "1">>),
    Str(<<"+", "5">>),
    Str(<<"-", "5">>),
    Str(<<"+", "0", ".", "0", "0", "1">>),
    Str(<<"-", "0", ".", "0", "0", "0", "0", "0", "0", "2">>),
    Str(<<"-", "0", ".", "0", "0", "0", "0", "0", "0", "4">>),
    Str(<<"x", "5">>),
    Str(<<"+">>),
    Str(<<>>) }

\* what get_products returns
ProductLists ==
  { << [id |-> <<"E", "T", "H", "-", "U", "S", "D">>],
       [id |-> <<"B", "T", "C", "-", "U", "S", "D">>] >> }

\* the 'price' of what get_product_ticker returns
TickerPrices ==
  { <<"1", "0", "0", ".", "0", "0">>,
    <<"1", "0", "0", ".", "0", "0", "5">>,
    <<"1", ".", "0", "0", "9", "9", "9", "9", "9">> }

USD == <<"U", "S", "D">>

BTC == <<"B", "T", "C">>

\* what get_accounts returns
AccountLists ==
  { << [currency |-> USD, available |-> <<"1", "0", "0">>],
       [currency |-> BTC, available |-> <<"1">>] >>,
    << [currency |-> BTC, available |-> <<"0">>],
       [currency |-> USD, available |-> <<"5", "0", ".", "2", "5">>] >>,
    << [currency |-> BTC, available |-> <<"2">>] >> }

\* what the operator types at a prompt
Responses == { <<"y">>, <<"Y">>, <<>>, <<"n">>, <<"y", "e", "s">> }

\* the length of an order identifier and the largest number of open orders
IdLen == 2

MaxOrders == 3

IdChars == {"a", "b"}

OrderIds == [1..IdLen -> IdChars]

Prefixes == UNION { [1..n -> IdChars] : n \in 0..IdLen }

RECURSIVE SeqsOfDistinct(_, _)
SeqsOfDistinct(S, n) ==
  IF n = 0 THEN { <<>> }
  ELSE LET shorter == SeqsOfDistinct(S, n - 1)
       IN  shorter \cup
           { Append(l, x) : l \in { q \in shorter : Len(q) = n - 1 }, x \in S }

\* what get_orders returns: the identifiers of the open orders, all distinct
OrderLists ==
  { l \in SeqsOfDistinct(OrderIds, MaxOrders) : \A i, j \in 1..Len(l) : l[i] = l[j] => i = j }

(***************************************************************************)
(* State                                                                   *)
(***************************************************************************)

VARIABLES
  pc,               \* where the running invocation stands, "idle" between two
  args,             \* the arguments of order
  product,          \* order: product.upper()
  product_ids,      \* order: the sorted identifiers of the tradable products
  accounts,         \* order: the list get_accounts returned
  current_price,    \* order: the ticker price, a float
  abs_price,        \* order: the resolved price, a str
  amount,           \* order: the offset from the market, a float
  price,            \* order: the local price after the order type branch
  total,            \* order: float(size) * float(price)
  kwargs,           \* order: the parameters of buy / sell
  req,              \* order: what the funds check requires
  dbal,             \* order: self.bal(den)
  order_id_prefix,  \* order_cancel: its argument
  skip_confirmation,\* order_cancel: its argument
  order_ids,        \* order_cancel: the identifiers of the open orders
  possible_matches, \* order_cancel: those that start with the prefix
  order_id,         \* order_cancel: the loop variable of "for order_id in"
  trace,            \* the external calls and prompts made, in order
  submitted,        \* the kwargs buy / sell were called with
  cancelled,        \* the identifiers cancel_order was called with
  responses,        \* what the operator answered to the prompts
  printed,          \* the messages printed
  raised            \* the exception the invocation ended with, or "none"

orderLocals ==
  <<product, product_ids, accounts, current_price, abs_price, amount, price, total, kwargs, req, dbal>>

cancelVars ==
  <<order_id_prefix, skip_confirmation, order_ids, possible_matches, order_id>>

effects == <<submitted, cancelled, responses, printed, raised>>

vars ==
  <<pc, args, orderLocals, cancelVars, trace, effects>>

NoArgs ==
  [order_type |-> "", side |-> "", product |-> <<>>, size |-> None,
   price |-> None, skip_confirmation |-> FALSE]

NoKwargs ==
  [product_id |-> <<>>, type |-> "", side |-> "", size |-> None, price |-> None]

Init ==
  /\ pc = "idle"
  /\ args = NoArgs
  /\ product = <<>>
  /\ product_ids = <<>>
  /\ accounts = <<>>
  /\ current_price = Zero
  /\ abs_price = <<>>
  /\ amount = Zero
  /\ price = None
  /\ total = Zero
  /\ kwargs = NoKwargs
  /\ req = None
  /\ dbal = Zero
  /\ order_id_prefix = <<>>
  /\ skip_confirmation = FALSE
  /\ order_ids = <<>>
  /\ possible_matches = <<>>
  /\ order_id = <<>>
  /\ trace = <<>>
  /\ submitted = <<>>
  /\ cancelled = <<>>
  /\ responses = <<>>
  /\ printed = <<>>
  /\ raised = "none"

\* the invocation ends by raising exception e
Raise(e) ==
  /\ raised' = e
  /\ pc' = "Aborted"

(***************************************************************************)
(* Client.order                                                            *)
(***************************************************************************)

\* the operator invokes order(order_type, side, product, size, price, skip)
OrderCall ==
  /\ pc = "idle"
  /\ \E ot \in OrderTypes, sd \in Sides, pr \in ProductArgs, sz \in SizeArgs,
        pa \in PriceArgs, skip \in BOOLEAN :
       args' = [order_type |-> ot, side |-> sd, product |-> pr, size |-> sz,
                price |-> pa, skip_confirmation |-> skip]
  /\ pc' = "Unvalidated"
  /\ UNCHANGED <<orderLocals, cancelVars, trace, effects>>

\* product = product.upper(); self._check_valid_order(...)
Validate ==
  /\ pc = "Unvalidated"
  /\ product' = Upper(args.product)
  /\ trace' = Append(trace, "get_products")
  /\ \E products \in ProductLists : product_ids' = GetProductIds(products)
  /\ LET res == CheckValidOrder(args.order_type, args.side, product',
                                args.size, args.price, product_ids')
     IN  IF res = "ok"
           THEN pc' = "Validated" /\ raised' = raised
           ELSE Raise(res)
  /\ UNCHANGED <<args, accounts, current_price, abs_price, amount, price, total, kwargs,
                 req, dbal, cancelVars, submitted, cancelled, responses, printed>>

\* the ticker fetch and the branch on order_type
ResolvePrice ==
  /\ pc = "Validated"
  /\ trace' = Append(trace, "get_product_ticker")
  /\ \E tick \in TickerPrices, tieUp \in BOOLEAN :
       /\ current_price' = Float(tick)
       /\ CASE args.order_type = "market" ->
                 /\ total' = DecMul(PyFloat(args.size), current_price')
                 /\ price' = Flt(current_price')
                 /\ pc' = "PriceResolved"
                 /\ UNCHANGED <<abs_price, amount, raised>>
            [] args.order_type = "limit" ->
                 LET r == ParsePrice(args.price.s, current_price', tieUp)
                 IN  IF r.err # "none"
                       THEN /\ Raise(r.err)
                            /\ UNCHANGED <<abs_price, amount, price, total>>
                       ELSE /\ abs_price' = r.abs_price
                            /\ amount' = r.amount
                            /\ total' = total
                            /\ IF \/ args.side = "buy" /\ DecLeq(Zero, r.amount)
                                  \/ args.side = "sell" /\ DecLeq(r.amount, Zero)
                                 THEN Raise("InvalidOrderError") /\ price' = price
                                 ELSE /\ price' = Str(r.abs_price)
                                      /\ pc' = "PriceResolved"
                                      /\ raised' = raised
            [] args.order_type = "stop" ->
                 /\ Raise("NotImplementedError")
                 /\ UNCHANGED <<abs_price, amount, price, total>>
  /\ UNCHANGED <<args, product, product_ids, accounts, kwargs, req, dbal,
                 cancelVars, submitted, cancelled, responses, printed>>

\* kwargs built from the product as the operator typed it
OrderKwargsAsTyped(product_id, order_type, side, size, limit_price) ==
  [product_id |-> args.product, type |-> order_type, side |-> side,
   size |-> size,
   price |-> IF order_type = "limit" THEN Str(limit_price) ELSE None]

\* kwargs: the parameters of buy / sell, with a price for a limit order only
OrderKwargs(product_id, order_type, side, size, limit_price) ==
  [product_id |-> product_id, type |-> order_type, side |-> side,
   size |-> size,
   price |-> IF order_type = "limit" THEN Str(limit_price) ELSE None]

\* kwargs, the total and the funds check
FundsCheck ==
  /\ pc = "PriceResolved"
  /\ kwargs' = OrderKwargs(product, args.order_type, args.side, args.size,
                           abs_price)
  /\ total' = DecMul(PyFloat(args.size), PyFloat(price))
  /\ req' = IF args.side = "buy" THEN Flt(total') ELSE args.size
  /\ trace' = Append(trace, "get_accounts")
  /\ accounts' \in AccountLists
  /\ LET den == Split(product)[IF args.side = "buy" THEN 2 ELSE 1]
         avail == Available(accounts', den)
     IN    IF Len(avail) = 0
             THEN Raise("IndexError") /\ UNCHANGED <<dbal, printed>>
             ELSE /\ dbal' = Float(avail[1])
                  /\ raised' = raised
                  /\ IF PyLess(dbal', req')
                       THEN /\ printed' = Append(printed, "Not enough funds")
                            /\ pc' = "Aborted"
                       ELSE /\ printed' = printed
                            /\ pc' = "FundsChecked"
  /\ UNCHANGED <<args, product, product_ids, current_price, abs_price,
                 amount, price, cancelVars, submitted, cancelled, responses>>

\* print('Placing %s order: ...')
Preview ==
  /\ pc = "FundsChecked"
  /\ printed' = Append(printed, "Placing order")
  /\ pc' = "AwaitingConfirmation"
  /\ UNCHANGED <<args, orderLocals, cancelVars, trace, submitted, cancelled,
                 responses, raised>>

\* self._client.buy(**kwargs) or self._client.sell(**kwargs)
Submit(tr) ==
  /\ trace' = Append(tr, IF args.side = "buy" THEN "buy" ELSE "sell")
  /\ submitted' = Append(submitted, kwargs)
  /\ printed' = Append(printed, "result")
  /\ pc' = "Submitted"

\* if skip_confirmation or confirm(): ... else: print('Did nothing')
ConfirmOrder ==
  /\ pc = "AwaitingConfirmation"
  /\ IF args.skip_confirmation
       THEN Submit(trace) /\ responses' = responses
       ELSE \E response \in Responses :
              /\ responses' = Append(responses, response)
              /\ IF Confirm(response)
                   THEN Submit(Append(trace, "raw_input"))
                   ELSE /\ trace' = Append(trace, "raw_input")
                        /\ printed' =
                             (IF response = <<>>
                                THEN Append(printed, "Enter y or Y to proceed.")
                                ELSE printed) \o <<"Did nothing">>
                        /\ submitted' = submitted
                        /\ pc' = "Aborted"
  /\ UNCHANGED <<args, orderLocals, cancelVars, cancelled, raised>>

(***************************************************************************)
(* Client.order_cancel                                                     *)
(***************************************************************************)

\* the operator invokes order_cancel(order_id_prefix, skip_confirmation)
CancelCall ==
  /\ pc = "idle"
  /\ order_id_prefix' \in Prefixes
  /\ skip_confirmation' \in BOOLEAN
  /\ pc' = "CancelCalled"
  /\ UNCHANGED <<args, orderLocals, order_ids, possible_matches, order_id,
                 trace, effects>>

\* the value the loop variable of "for order_id in order_ids" is left with
LoopVariable(ids, before) == IF Len(ids) = 0 THEN before ELSE ids[Len(ids)]

\* the second loop leaving at its first match
FirstMatchOnly(ids, prefix) ==
  LET all == SelectSeq(ids, LAMBDA id : StartsWith(id, prefix))
  IN  IF Len(all) = 0 THEN <<>> ELSE << all[1] >>

\* the second loop: the identifiers that start with the prefix, in order
PossibleMatches(ids, prefix) ==
  SelectSeq(ids, LAMBDA id : StartsWith(id, prefix))

\* get_orders, the two loops and the two early returns
CancelMatch ==
  /\ pc = "CancelCalled"
  /\ trace' = Append(trace, "get_orders")
  /\ order_ids' \in OrderLists
  /\ possible_matches' = PossibleMatches(order_ids', order_id_prefix)
  /\ order_id' = LoopVariable(order_ids', order_id)
  /\ IF Len(possible_matches') = 0
       THEN /\ printed' = Append(printed, "Order prefix does not match any")
            /\ pc' = "Aborted"
       ELSE IF Len(possible_matches') > 1
         THEN /\ printed' = Append(printed, "Order prefix too short")
              /\ pc' = "Aborted"
         ELSE /\ printed' = printed
              /\ pc' = "CancelMatched"
  /\ UNCHANGED <<args, orderLocals, order_id_prefix, skip_confirmation,
                 submitted, cancelled, responses, raised>>

\* get_order(possible_matches[0]) and the table of the order; an answer
\* that is an error message has no 'size', so _parse_order raises KeyError
CancelShow ==
  /\ pc = "CancelMatched"
  /\ trace' = Append(trace, "get_order")
  /\ \E found \in BOOLEAN :
       IF found
         THEN /\ printed' = Append(printed, "order table")
              /\ pc' = "CancelAwaitingConfirmation"
              /\ raised' = raised
         ELSE /\ printed' = Append(printed, "order message")
              /\ Raise("KeyError")
  /\ UNCHANGED <<args, orderLocals, cancelVars, submitted, cancelled,
                 responses>>

\* if skip_confirmation or confirm('Cancel order?'): cancel_order(order_id)
ConfirmCancel ==
  /\ pc = "CancelAwaitingConfirmation"
  /\ IF skip_confirmation
       THEN /\ trace' = Append(trace, "cancel_order")
            /\ cancelled' = Append(cancelled, order_id)
            /\ printed' = Append(printed, "result")
            /\ responses' = responses
            /\ pc' = "Cancelled"
       ELSE \E response \in Responses :
              /\ responses' = Append(responses, response)
              /\ IF Confirm(response)
                   THEN /\ trace' = trace \o <<"raw_input", "cancel_order">>
                        /\ cancelled' = Append(cancelled, order_id)
                        /\ printed' = Append(printed, "result")
                        /\ pc' = "Cancelled"
                   ELSE /\ trace' = Append(trace, "raw_input")
                        /\ cancelled' = cancelled
                        /\ printed' =
                             IF response = <<>>
                               THEN Append(printed, "Enter y or Y to proceed.")
                               ELSE printed
                        /\ pc' = "Aborted"
  /\ UNCHANGED <<args, orderLocals, cancelVars, submitted, raised>>

(***************************************************************************)
(* The program                                                             *)
(***************************************************************************)

Terminal == {"Submitted", "Cancelled", "Aborted"}

\* the invocation has returned or raised; the next one starts afresh
Return ==
  /\ pc \in Terminal
  /\ pc' = "idle"
  /\ args' = NoArgs
  /\ product' = <<>>
  /\ product_ids' = <<>>
  /\ accounts' = <<>>
  /\ current_price' = Zero
  /\ abs_price' = <<>>
  /\ amount' = Zero
  /\ price' = None
  /\ total' = Zero
  /\ kwargs' = NoKwargs
  /\ req' = None
  /\ dbal' = Zero
  /\ order_id_prefix' = <<>>
  /\ skip_confirmation' = FALSE
  /\ order_ids' = <<>>
  /\ possible_matches' = <<>>
  /\ order_id' = <<>>
  /\ trace' = <<>>
  /\ submitted' = <<>>
  /\ cancelled' = <<>>
  /\ responses' = <<>>
  /\ printed' = <<>>
  /\ raised' = "none"

Next ==
  \/ OrderCall
  \/ Validate
  \/ ResolvePrice
  \/ FundsCheck
  \/ Preview
  \/ ConfirmOrder
  \/ CancelCall
  \/ CancelMatch
  \/ CancelShow
  \/ ConfirmCancel
  \/ Return

Spec == Init /\ [][Next]_vars

(***************************************************************************)
(* Properties                                                              *)
(***************************************************************************)

InTrace(fn) == \E i \in 1..Len(trace) : trace[i] = fn

Count(fn) == Cardinality({i \in 1..Len(trace) : trace[i] = fn})

InPrinted(msg) == \E i \in 1..Len(printed) : printed[i] = msg

Yes == { <<"y">>, <<"Y">> }

\* the running invocation was told to skip the confirmation
Skipping == args.skip_confirmation \/ skip_confirmation

\* prefix is the start of the identifier id
IsPrefixOf(prefix, id) ==
  /\ Len(prefix) <= Len(id)
  /\ \A i \in 1..Len(prefix) : id[i] = prefix[i]

\* the positions of the open orders whose identifier starts with the prefix
Matching == {i \in 1..Len(order_ids) : IsPrefixOf(order_id_prefix, order_ids[i])}

\* C1: when the prefix is the start of exactly one open order's identifier
\* and order_cancel goes through, cancel_order is called exactly once, with
\* the full identifier of that order.
C1_CancelsTheMatchingOrder ==
  (pc = "Cancelled" /\ Cardinality(Matching) = 1)
    => cancelled = << order_ids[CHOOSE i \in Matching : TRUE] >>

\* C2: buy, sell and cancel_order are called only if skip_confirmation is
\* true or the operator answered exactly y or Y; any other answer, the empty
\* one included, leaves them uncalled; with skip_confirmation there is no
\* prompt.
C2_ConfirmationGate ==
  LET called == InTrace("buy") \/ InTrace("sell") \/ InTrace("cancel_order")
  IN  /\ called =>
           \/ Skipping
           \/ Len(responses) = 1 /\ responses[1] \in Yes
      /\ (Len(responses) > 0 /\ responses[Len(responses)] \notin Yes) =>
           /\ ~called
           /\ submitted = <<>>
           /\ cancelled = <<>>
      /\ Skipping => (~InTrace("raw_input") /\ responses = <<>>)
      /\ Count("raw_input") = Len(responses)

\* C2 witness: an order the operator confirmed with Y at the prompt
C2_Witness ==
  /\ pc = "Submitted"
  /\ ~args.skip_confirmation
  /\ responses = << <<"Y">> >>
  /\ Len(submitted) = 1

\* the price the order is placed at: the market price of a market order,
\* the resolved price of a limit order
OrderPrice ==
  IF args.order_type = "market" THEN current_price ELSE Float(abs_price)

\* the available amounts of the accounts in currency cur
AvailableIn(cur) ==
  {i \in 1..Len(accounts) : accounts[i].currency = cur}

QuoteCurrency == Split(Upper(args.product))[2]

BaseCurrency == Split(Upper(args.product))[1]

\* the funds check of the running order has fetched the balance of cur
FundsFetched(cur) ==
  /\ InTrace("get_accounts")
  /\ AvailableIn(cur) # {}

AvailableOf(cur) ==
  Float(accounts[CHOOSE i \in AvailableIn(cur) : \A j \in AvailableIn(cur) : i <= j].available)

\* the order went on to the preview and the confirmation gate
ReachedGate ==
  /\ ~InPrinted("Not enough funds")
  /\ raised = "none"
  /\ \/ pc = "FundsChecked"
     \/ /\ InPrinted("Placing order")
        /\ pc \in {"AwaitingConfirmation", "Submitted", "Aborted"}

\* the order stopped at the funds check with the message, and nothing else
StoppedForFunds ==
  /\ pc = "Aborted"
  /\ raised = "none"
  /\ printed = << "Not enough funds" >>
  /\ ~InTrace("raw_input")
  /\ responses = <<>>
  /\ submitted = <<>>
  /\ ~InTrace("buy")
  /\ ~InTrace("sell")

\* C3: a buy that reached the funds check stops there with the message, no
\* exception, no prompt and no buy or sell if size x price is greater than
\* the available quote balance, and goes on to the preview and the
\* confirmation gate if the available quote balance is at least size x price.
C3_BuyFundsCheck ==
  (args.side = "buy" /\ FundsFetched(QuoteCurrency)) =>
    LET required == DecMul(PyFloat(args.size), OrderPrice)
    IN  IF DecLess(AvailableOf(QuoteCurrency), required)
          THEN StoppedForFunds
          ELSE ReachedGate

\* C3 witness: a buy whose total is exactly the available quote balance has
\* passed the funds check
C3_Witness ==
  /\ args.side = "buy"
  /\ FundsFetched(QuoteCurrency)
  /\ DecMul(PyFloat(args.size), OrderPrice) = AvailableOf(QuoteCurrency)
  /\ pc = "AwaitingConfirmation"

\* C4: a sell that reached the funds check stops there with the message
\* exactly when the available base balance is numerically less than size,
\* and otherwise goes on to the preview and the confirmation gate.
C4_SellFundsCheck ==
  (args.side = "sell" /\ FundsFetched(BaseCurrency)) =>
    IF DecLess(AvailableOf(BaseCurrency), PyFloat(args.size))
      THEN StoppedForFunds
      ELSE ReachedGate

\* a limit order whose price has been resolved by _parse_price
LimitResolved ==
  /\ args.order_type = "limit"
  /\ InTrace("get_product_ticker")
  /\ raised # "ValueError"

\* C5: a limit sell is rejected with InvalidOrderError, and nothing is
\* submitted, if the resolved (truncated) price is less than or equal to the
\* current price, and is not rejected if it is strictly above.
C5_LimitSellGuard ==
  (LimitResolved /\ args.side = "sell") =>
    IF DecLeq(Float(abs_price), current_price)
      THEN raised = "InvalidOrderError" /\ pc = "Aborted" /\ submitted = <<>>
      ELSE raised # "InvalidOrderError"

\* C6: a limit buy is rejected with InvalidOrderError, and nothing is
\* submitted, if the resolved (truncated) price is greater than or equal to
\* the current price, and is not rejected if it is strictly below.
C6_LimitBuyGuard ==
  (LimitResolved /\ args.side = "buy") =>
    IF DecLeq(current_price, Float(abs_price))
      THEN raised = "InvalidOrderError" /\ pc = "Aborted" /\ submitted = <<>>
      ELSE raised # "InvalidOrderError"

\* the product of the request is, whatever the case, a tradable product
Tradable ==
  \E i \in 1..Len(product_ids) : Upper(product_ids[i]) = Upper(args.product)

\* the request has a price spec with a first character
HasPriceSpec == args.price.t = "str" /\ Len(args.price.s) > 0

\* the request of the running order breaks a constraint of validation
ConstraintViolated ==
  \/ args.order_type \notin {"market", "limit", "stop"}
  \/ args.side \notin {"buy", "sell"}
  \/ ~Tradable
  \/ ~CanFloat(args.size)
  \/ /\ args.order_type # "market"
     /\ HasPriceSpec
     /\ args.price.s[1] \notin (DIGITS \cup {"+", "-"})

\* the request of the running order satisfies every constraint
ConstraintsSatisfied ==
  /\ args.order_type \in {"market", "limit", "stop"}
  /\ args.side \in {"buy", "sell"}
  /\ Tradable
  /\ CanFloat(args.size)
  /\ args.order_type # "market" =>
       (HasPriceSpec /\ args.price.s[1] \in (DIGITS \cup {"+", "-"}))

\* validation of the running order has just run
JustValidated == trace = << "get_products" >>

\* C7: validation fails with InvalidOrderError, and no other error, whenever
\* a constraint is violated, and a request that satisfies them all passes.
C7_ValidationError ==
  JustValidated =>
    /\ ConstraintViolated => (pc = "Aborted" /\ raised = "InvalidOrderError")
    /\ ConstraintsSatisfied => (pc = "Validated" /\ raised = "none")

\* C8: when the prefix matches no open order or two or more of them,
\* order_cancel prints a message and returns, without a prompt and without
\* a cancel_order call.
C8_NonUniqueTarget ==
  (InTrace("get_orders") /\ Cardinality(Matching) # 1) =>
    /\ pc = "Aborted"
    /\ raised = "none"
    /\ printed = << IF Matching = {} THEN "Order prefix does not match any"
                    ELSE "Order prefix too short" >>
    /\ trace = << "get_orders" >>
    /\ responses = <<>>
    /\ cancelled = <<>>

\* C8 witness: the empty prefix with two or more open orders
C8_Witness ==
  /\ InTrace("get_orders")
  /\ order_id_prefix = <<>>
  /\ Len(order_ids) >= 2
  /\ pc = "Aborted"

\* the calls an order that submits has made, in order
SubmittingTrace(last) ==
  << "get_products", "get_product_ticker", "get_accounts" >>
    \o (IF args.skip_confirmation THEN <<>> ELSE << "raw_input" >>)
    \o << last >>

\* the running invocation is one of order
InOrder == args.order_type # ""

\* C9: order submits at most once, and only after validation, the ticker
\* fetch and the price resolution, the funds check and the confirmation gate,
\* in this order; it ends Submitted or Aborted, without a retry; an
\* invocation that raised InvalidOrderError or NotImplementedError, which a
\* stop order that passes validation always does, has made no submission, no
\* balance fetch and no prompt.
C9_PipelineOrdering ==
  InOrder =>
    /\ Len(submitted) <= 1
    /\ Count("buy") + Count("sell") = Len(submitted)
    /\ \A fn \in {"get_products", "get_product_ticker", "get_accounts", "raw_input"} :
         Count(fn) <= 1
    /\ (pc = "Submitted") <=> (Len(submitted) = 1)
    /\ Len(submitted) = 1 =>
         /\ trace = SubmittingTrace(args.side)
         /\ ConstraintsSatisfied
         /\ InPrinted("Placing order")
         /\ ~InPrinted("Not enough funds")
         /\ raised = "none"
         /\ args.skip_confirmation \/ (Len(responses) = 1 /\ responses[1] \in Yes)
    /\ InTrace("raw_input") =>
         SubSeq(trace, 1, 3) = << "get_products", "get_product_ticker", "get_accounts" >>
    /\ InTrace("get_accounts") =>
         SubSeq(trace, 1, 2) = << "get_products", "get_product_ticker" >>
    /\ InTrace("get_product_ticker") => trace[1] = "get_products"
    /\ raised # "none" => pc = "Aborted"
    /\ raised \in {"InvalidOrderError", "NotImplementedError"} =>
         /\ submitted = <<>>
         /\ trace = << "get_products", "get_product_ticker" >>
         /\ responses = <<>>
    /\ (args.order_type = "stop" /\ InTrace("get_product_ticker")) =>
         raised = "NotImplementedError"

\* C9 witness: a limit order submitted after the operator's confirmation
C9_Witness ==
  /\ pc = "Submitted"
  /\ args.order_type = "limit"
  /\ ~args.skip_confirmation
  /\ trace = << "get_products", "get_product_ticker", "get_accounts", "raw_input", "buy" >>

\* the exact price of a resolved limit order: the price spec itself, or the
\* current price plus the offset
ExactPrice ==
  IF args.price.s[1] \in DIGITS THEN Float(args.price.s)
  ELSE DecAdd(current_price, amount)

Cent == Dec(1, 2)

\* C10: the resolved price of a non-negative exact price is never greater
\* than the exact price and is less than 0.01 below it.
C10_TruncatesNeverRounds ==
  (LimitResolved /\ DecLeq(Zero, ExactPrice)) =>
    /\ DecLeq(Float(abs_price), ExactPrice)
    /\ DecLess(DecSub(ExactPrice, Float(abs_price)), Cent)

\* C11: an order that submits calls buy if and only if side is buy and sell
\* if and only if side is sell, with the product identifier uppercased and
\* the order type, side and size as given; the price is there if and only if
\* the order is a limit order, and is then the resolved price, of at most 2
\* fractional digits; the total, which a buy's funds check requires, is size
\* x current price for a market order and size x resolved price for a limit
\* order.
C11_SubmissionParameters ==
  /\ (InOrder /\ InTrace("get_accounts")) =>
       /\ total = DecMul(PyFloat(args.size), OrderPrice)
       /\ args.side = "buy" => req = Flt(total)
  /\ (InOrder /\ pc = "Submitted") =>
       /\ Len(submitted) = 1
       /\ InTrace("buy") <=> args.side = "buy"
       /\ InTrace("sell") <=> args.side = "sell"
       /\ submitted[1].product_id = Upper(args.product)
       /\ submitted[1].type = args.order_type
       /\ submitted[1].side = args.side
       /\ submitted[1].size = args.size
       /\ (submitted[1].price.t # "none") <=> (args.order_type = "limit")
       /\ args.order_type = "limit" =>
            /\ submitted[1].price = Str(abs_price)
            /\ Float(abs_price).e <= 2
       /\ args.side = "buy" => DecLeq(total, AvailableOf(QuoteCurrency))

\* C11 witness: a limit sell, its product typed in lower case, submitted
C11_Witness ==
  /\ pc = "Submitted"
  /\ args.order_type = "limit"
  /\ args.side = "sell"
  /\ args.product # Upper(args.product)
  /\ InTrace("sell")
  /\ submitted[1].price.t = "str"

====
